---- MODULE Spec2Model ----
(***************************************************************************)
(* A model of videogrep/videogrep.py: one run of videogrep() over subtitle *)
(* (.srt) inputs, from the search for cues to the written output.          *)
(*                                                                         *)
(* Times are integers in milliseconds (the code holds seconds as floats:   *)
(* padding / 1000.0, float(millis) / 1000); arithmetic is exact here.      *)
(* A video file is named by the index of the input it belongs to.          *)
(* The calls into the media toolkit (VideoFileClip, subclip, concatenate,  *)
(* to_videofile) are modelled by what they are handed and what they write; *)
(* a call that is not inside a try block is taken to return.               *)
(***************************************************************************)
EXTENDS Integers, Sequences, FiniteSets, TLC

VARIABLES
    inputfile,    \* the inputs on disk: <<[srt, video, blocks]>>
    args,         \* the arguments of videogrep(): padding, sync, maxclips, ...
    pc,           \* the position of the run in videogrep()
    composition,  \* the list of segments (dicts with file, time, start, end, line)
    status,       \* the exit status of the process, 0 while it has not failed
    ran,          \* the output functions videogrep() has called so far
    outfile,      \* what is stored at outputfile: [kind, body]
    clipfiles,    \* the files split_clips wrote, in order of their index
    tmpfiles,     \* the temporary batch files on disk, by start_index
    start_index,  \* create_supercut_in_batches: first index of the next batch
    end_index,    \* create_supercut_in_batches: end of the next batch's slice
    batch_comp,   \* create_supercut_in_batches: the temporaries to concatenate
    attempts      \* the start_index of every create_supercut call of the batch job

vars == <<inputfile, args, pc, composition, status, ran, outfile, clipfiles,
          tmpfiles, start_index, end_index, batch_comp, attempts>>

(***************************************************************************)
(* Program constants.                                                      *)
(***************************************************************************)
BATCH_SIZE == 20

\* The search term. A line of text is the list of its words, and the search
\* (searchtype 're' or 'word') finds the term anywhere in the line.
search == "hello"

(***************************************************************************)
(* Bounds of the model.                                                    *)
(***************************************************************************)
MaxTime == 3       \* cue times of the small inputs run over 0..MaxTime ticks
MaxCues == 2       \* cue blocks in a small subtitle file
MaxPadding == 2    \* padding runs over 0..MaxPadding ticks
MaxBatches == 2    \* the large inputs have up to MaxBatches full batches
MaxShuffle == 3    \* random.shuffle is enumerated for up to MaxShuffle segments

\* t ticks of the input generator, in milliseconds.
Tick(t) == t * 500

Min(a, b) == IF a < b THEN a ELSE b

(***************************************************************************)
(* Subtitle timestamps and their conversion.                               *)
(***************************************************************************)
\* The srt timestamp "HH:MM:SS,mmm" that lies t ticks after 0.
Stamp(t) ==
    [hours   |-> Tick(t) \div 3600000,
     minutes |-> (Tick(t) \div 60000) % 60,
     seconds |-> (Tick(t) \div 1000) % 60,
     millis  |-> Tick(t) % 1000]

convert_timestamp(timestamp) ==
    (timestamp.seconds + timestamp.hours * 60 * 60 + timestamp.minutes * 60) * 1000
        + timestamp.millis

convert_timespan(timespan) ==
    <<convert_timestamp(timespan[1]), convert_timestamp(timespan[2])>>

(***************************************************************************)
(* clean_srt: the cue blocks of a file as an ordered dictionary keyed by   *)
(* the timespan line. A repeated key keeps its first position and takes    *)
(* the text of its last block.                                             *)
(***************************************************************************)
RECURSIVE clean_from(_, _)
clean_from(blocks, output) ==
    IF blocks = <<>> THEN output
    ELSE LET b == Head(blocks)
             at == {i \in 1..Len(output) : output[i].time = b.time}
         IN  IF at = {}
             THEN clean_from(Tail(blocks), Append(output, b))
             ELSE clean_from(Tail(blocks),
                             [i \in 1..Len(output) |->
                                 IF i \in at THEN b ELSE output[i]])

clean_srt(srt) == clean_from(inputfile[srt].blocks, <<>>)

search_line(line) == \E i \in 1..Len(line) : line[i] = search

\* The subtitle files found for the inputs, in input order.
get_subtitle_files ==
    SelectSeq([i \in 1..Len(inputfile) |-> i], LAMBDA i : inputfile[i].srt)

\* The segments one subtitle file contributes.
RECURSIVE matches_of(_, _)
matches_of(srt, lines) ==
    IF lines = <<>> THEN <<>>
    ELSE LET l == Head(lines)
             span == convert_timespan(l.time)
         IN  (IF search_line(l.text)
              THEN <<[file |-> srt, time |-> l.time, start |-> span[1],
                      end |-> span[2], line |-> l.text]>>
              ELSE <<>>) \o matches_of(srt, Tail(lines))

RECURSIVE compose_from_srts(_)
compose_from_srts(srts) ==
    IF srts = <<>> THEN <<>>
    ELSE LET srt == Head(srts)
             lines == clean_srt(srt)
         IN  (IF inputfile[srt].video /\ lines # <<>>
              THEN matches_of(srt, lines)
              ELSE <<>>) \o compose_from_srts(Tail(srts))

(***************************************************************************)
(* The adjustments of videogrep().                                         *)
(***************************************************************************)
\* A slip of apply_padding_sync: the padding is taken off the end as well.
apply_padding_sync_shifted(comp, padding, sync) ==
    [i \in 1..Len(comp) |->
        [comp[i] EXCEPT !.start = comp[i].start + sync - padding,
                        !.end = comp[i].end + sync - padding]]

apply_padding_sync(comp, padding, sync) ==
    [i \in 1..Len(comp) |->
        [comp[i] EXCEPT !.start = comp[i].start + sync - padding,
                        !.end = comp[i].end + sync + padding]]

\* A slip of truncate: composition[:maxclips + 1].
truncate_one_more(comp, maxclips) ==
    IF maxclips > 0 THEN SubSeq(comp, 1, Min(maxclips + 1, Len(comp))) ELSE comp

truncate(comp, maxclips) ==
    IF maxclips > 0 THEN SubSeq(comp, 1, Min(maxclips, Len(comp))) ELSE comp

Perms(n) == {p \in [1..n -> 1..n] : \A i, j \in 1..n : p[i] = p[j] => i = j}

(***************************************************************************)
(* create_supercut: the overlap correction and the clips it cuts.          *)
(***************************************************************************)
\* A slip of line 260: the files of the two clips are not compared.
add_padding_any_file(clip, nextclip, padding) ==
    IF nextclip.start < clip.end
    THEN [nextclip EXCEPT !.start = nextclip.start + padding]
    ELSE nextclip

\* One turn of the loop over zip(composition, composition[1:]).
add_padding(clip, nextclip, padding) ==
    IF nextclip.file = clip.file /\ nextclip.start < clip.end
    THEN [nextclip EXCEPT !.start = nextclip.start + padding]
    ELSE nextclip

RECURSIVE correct_from(_, _, _)
correct_from(comp, i, padding) ==
    IF i > Len(comp) THEN comp
    ELSE correct_from([comp EXCEPT ![i] = add_padding(comp[i - 1], comp[i], padding)],
                      i + 1, padding)

overlap_correction(comp, padding) == correct_from(comp, 2, padding)

subclip(c) == [file |-> c.file, start |-> c.start, end |-> c.end]

cut_clips(comp) == [i \in 1..Len(comp) |-> subclip(comp[i])]

(***************************************************************************)
(* make_edl: the record times handed to make_edl_segment, clip by clip.    *)
(***************************************************************************)
\* A slip of make_edl's loop: rec_in is not moved on to rec_out.
RECURSIVE edl_from_stuck(_, _, _, _)
edl_from_stuck(timestamps, index, rec_in, out) ==
    IF index > Len(timestamps) THEN out
    ELSE LET time_in == timestamps[index].start
             time_out == timestamps[index].end
             duration == time_out - time_in
             rec_out == rec_in + duration
         IN  edl_from_stuck(timestamps, index + 1, rec_in,
                            Append(out, [n |-> index, time_in |-> time_in,
                                         time_out |-> time_out, rec_in |-> rec_in,
                                         rec_out |-> rec_out,
                                         filename |-> timestamps[index].file]))

RECURSIVE edl_from(_, _, _, _)
edl_from(timestamps, index, rec_in, out) ==
    IF index > Len(timestamps) THEN out
    ELSE LET time_in == timestamps[index].start
             time_out == timestamps[index].end
             duration == time_out - time_in
             rec_out == rec_in + duration
         IN  edl_from(timestamps, index + 1, rec_out,
                      Append(out, [n |-> index, time_in |-> time_in,
                                   time_out |-> time_out, rec_in |-> rec_in,
                                   rec_out |-> rec_out,
                                   filename |-> timestamps[index].file]))

make_edl(timestamps) == edl_from(timestamps, 1, 0, <<>>)

\* make_otio: the source range of every clip of the track.
make_otio(timestamps) ==
    [i \in 1..Len(timestamps) |->
        [n |-> i, time_in |-> timestamps[i].start,
         duration |-> timestamps[i].end - timestamps[i].start,
         filename |-> timestamps[i].file]]

(***************************************************************************)
(* videogrep(): one action per step of the run.                            *)
(***************************************************************************)
NoFile == [kind |-> "none", body |-> <<>>]

batch_vars == <<tmpfiles, start_index, end_index, batch_comp, attempts>>
out_vars == <<ran, outfile, clipfiles>>

\* Lines 513-514. get_subtitle_files() returns False when it finds no
\* subtitle file, and compose_from_srts() then raises on iterating it: the
\* process ends with a traceback and status 1.
Compose ==
    /\ pc = "start"
    /\ IF get_subtitle_files = <<>>
       THEN /\ pc' = "error"
            /\ status' = 1
            /\ UNCHANGED composition
       ELSE /\ composition' = compose_from_srts(get_subtitle_files)
            /\ pc' = "composed"
            /\ UNCHANGED status
    /\ UNCHANGED <<inputfile, args, out_vars, batch_vars>>

\* A slip of lines 518-520: the message is printed and the run goes on.
NoMatchGoesOn ==
    /\ pc = "composed"
    /\ Len(composition) = 0
    /\ pc' = "truncate"
    /\ UNCHANGED <<inputfile, args, composition, status, out_vars, batch_vars>>

\* Lines 518-520.
NoMatch ==
    /\ pc = "composed"
    /\ Len(composition) = 0
    /\ pc' = "exit"
    /\ status' = 1
    /\ UNCHANGED <<inputfile, args, composition, out_vars, batch_vars>>

\* Lines 526-528.
ApplyPaddingSync ==
    /\ pc = "composed"
    /\ Len(composition) # 0
    /\ composition' = apply_padding_sync(composition, args.padding, args.sync)
    /\ pc' = "truncate"
    /\ UNCHANGED <<inputfile, args, status, out_vars, batch_vars>>

\* Lines 530-531.
Truncate ==
    /\ pc = "truncate"
    /\ composition' = truncate(composition, args.maxclips)
    /\ pc' = "shuffle"
    /\ UNCHANGED <<inputfile, args, status, out_vars, batch_vars>>

\* Lines 533-534: random.shuffle puts the list in any order.
Shuffle ==
    /\ pc = "shuffle"
    /\ IF args.randomize
       THEN \E p \in Perms(Len(composition)) :
                composition' = [i \in 1..Len(composition) |-> composition[p[i]]]
       ELSE UNCHANGED composition
    /\ pc' = "output"
    /\ UNCHANGED <<inputfile, args, status, out_vars, batch_vars>>

\* Lines 536-537: demo_supercut only prints.
Demo ==
    /\ pc = "output"
    /\ args.test
    /\ ran' = ran \cup {"demo_supercut"}
    /\ pc' = "done"
    /\ UNCHANGED <<inputfile, args, composition, status, outfile, clipfiles, batch_vars>>

\* Lines 539-540: the first if of the output choice.
MakeEdl ==
    /\ pc = "output"
    /\ ~args.test
    /\ args.ext = ".edl"
    /\ outfile' = [kind |-> "edl", body |-> make_edl(composition)]
    /\ ran' = ran \cup {"make_edl"}
    /\ pc' = "output2"
    /\ UNCHANGED <<inputfile, args, composition, status, clipfiles, batch_vars>>

\* The run stands at the second if of the output choice (line 541).
AtSecondIf ==
    \/ pc = "output2"
    \/ pc = "output" /\ ~args.test /\ args.ext # ".edl"

\* Lines 541-542.
MakeOtio ==
    /\ AtSecondIf
    /\ args.ext = ".otio"
    /\ outfile' = [kind |-> "otio", body |-> make_otio(composition)]
    /\ ran' = ran \cup {"make_otio"}
    /\ pc' = "done"
    /\ UNCHANGED <<inputfile, args, composition, status, clipfiles, batch_vars>>

\* Lines 543-544 and split_clips (309-318).
SplitClips ==
    /\ AtSecondIf
    /\ args.ext # ".otio"
    /\ args.export_clips
    /\ clipfiles' = cut_clips(composition)
    /\ ran' = ran \cup {"split_clips"}
    /\ pc' = "done"
    /\ UNCHANGED <<inputfile, args, composition, status, outfile, batch_vars>>

\* Lines 549-550 and create_supercut (251-272) on the whole composition.
CreateSupercut ==
    /\ AtSecondIf
    /\ args.ext # ".otio"
    /\ ~args.export_clips
    /\ Len(composition) <= BATCH_SIZE
    /\ composition' = overlap_correction(composition, args.padding)
    /\ outfile' = [kind |-> "video", body |-> cut_clips(composition')]
    /\ ran' = ran \cup {"create_supercut"}
    /\ pc' = "done"
    /\ UNCHANGED <<inputfile, args, status, clipfiles, batch_vars>>

\* Lines 546-548 and 280-283.
StartBatches ==
    /\ AtSecondIf
    /\ args.ext # ".otio"
    /\ ~args.export_clips
    /\ Len(composition) > BATCH_SIZE
    /\ start_index' = 0
    /\ end_index' = BATCH_SIZE
    /\ batch_comp' = <<>>
    /\ ran' = ran \cup {"create_supercut_in_batches"}
    /\ pc' = "batch"
    /\ UNCHANGED <<inputfile, args, composition, status, outfile, clipfiles,
                   tmpfiles, attempts>>

\* A slip of the slice: composition[start_index:end_index - 1].
batch_slice_short(comp, from, to) == SubSeq(comp, from + 1, Min(to, Len(comp)) - 1)

\* composition[start_index:end_index], whose dicts are those of composition.
batch_slice(comp, from, to) == SubSeq(comp, from + 1, Min(to, Len(comp)))

\* The composition after create_supercut corrected the slice in place.
corrected_in_place(comp, from, to) ==
    LET batch == overlap_correction(batch_slice(comp, from, to), args.padding)
    IN  [i \in 1..Len(comp) |->
            IF i > from /\ i <= from + Len(batch) THEN batch[i - from] ELSE comp[i]]

next_start(from) == from + BATCH_SIZE

\* What every turn of the while loop does, whatever create_supercut does.
BatchTurn ==
    /\ pc = "batch"
    /\ start_index < Len(composition)
    /\ attempts' = Append(attempts, start_index)
    /\ composition' = corrected_in_place(composition, start_index, end_index)
    /\ start_index' = next_start(start_index)
    /\ end_index' = next_start(end_index)
    /\ UNCHANGED <<inputfile, args, pc, status, out_vars>>

\* Lines 284-291: create_supercut returns.
BatchRender ==
    /\ BatchTurn
    /\ tmpfiles' = (start_index :> [complete |-> TRUE,
                                    clips |-> cut_clips(batch_slice(composition',
                                                  start_index, end_index))])
                   @@ tmpfiles
    /\ batch_comp' = Append(batch_comp, start_index)

\* A slip of lines 292-295: a batch that fails ends the loop.
BatchFailEndsLoop ==
    /\ pc = "batch"
    /\ start_index < Len(composition)
    /\ attempts' = Append(attempts, start_index)
    /\ start_index' = Len(composition)
    /\ end_index' = Len(composition) + BATCH_SIZE
    /\ UNCHANGED <<inputfile, args, pc, composition, status, out_vars,
                   tmpfiles, batch_comp>>

\* Lines 292-295: create_supercut raised before to_videofile opened the
\* temporary file (VideoFileClip, subclip or concatenate raised).
BatchFail ==
    /\ BatchTurn
    /\ UNCHANGED <<tmpfiles, batch_comp>>

\* Lines 292-295: to_videofile raised while it wrote the temporary file.
BatchFailWriting ==
    /\ BatchTurn
    /\ tmpfiles' = (start_index :> [complete |-> FALSE, clips |-> <<>>]) @@ tmpfiles
    /\ UNCHANGED batch_comp

RECURSIVE concatenate(_)
concatenate(clips) ==
    IF clips = <<>> THEN <<>> ELSE Head(clips) \o concatenate(Tail(clips))

\* Lines 297-299.
Concatenate ==
    /\ pc = "batch"
    /\ ~(start_index < Len(composition))
    /\ outfile' = [kind |-> "video",
                   body |-> concatenate([i \in 1..Len(batch_comp) |->
                                            tmpfiles[batch_comp[i]].clips])]
    /\ pc' = "remove"
    /\ UNCHANGED <<inputfile, args, composition, status, ran, clipfiles, batch_vars>>

\* The temporary files left when os.remove has run over batch_comp.
remove_files(files, names) ==
    [f \in DOMAIN files \ {names[i] : i \in 1..Len(names)} |-> files[f]]

\* Lines 302-306.
RemoveTemporaries ==
    /\ pc = "remove"
    /\ tmpfiles' = remove_files(tmpfiles, batch_comp)
    /\ pc' = "done"
    /\ UNCHANGED <<inputfile, args, composition, status, out_vars,
                   start_index, end_index, batch_comp, attempts>>

Next ==
    \/ Compose
    \/ NoMatch
    \/ ApplyPaddingSync
    \/ Truncate
    \/ Shuffle
    \/ Demo
    \/ MakeEdl
    \/ MakeOtio
    \/ SplitClips
    \/ CreateSupercut
    \/ StartBatches
    \/ BatchRender
    \/ BatchFail
    \/ BatchFailWriting
    \/ Concatenate
    \/ RemoveTemporaries

(***************************************************************************)
(* The inputs of a run: the subtitle files on disk and the arguments.      *)
(***************************************************************************)
Exts == {".edl", ".otio", ".mp4"}

Arguments(paddings, syncs, clips, randoms, tests, exts, exports) ==
    [padding : paddings, sync : syncs, maxclips : clips, randomize : randoms,
     test : tests, ext : exts, export_clips : exports]

\* Cue timespans of a small subtitle file.
SmallSpans ==
    {<<Stamp(ab[1]), Stamp(ab[2])>> :
        ab \in {x \in (0..MaxTime) \X (0..MaxTime) : x[1] < x[2]}}

SeqsUpTo(S, n) == UNION {[1..k -> S] : k \in 0..n}

Input(blocks) == [srt |-> TRUE, video |-> TRUE, blocks |-> blocks]

\* Every way to lay a list of cue blocks out over two subtitle files.
TwoFiles(blocks) ==
    {<<Input(SubSeq(blocks, 1, k)), Input(SubSeq(blocks, k + 1, Len(blocks)))>> :
        k \in 0..Len(blocks)}

Spoken(spans, text) == [i \in 1..Len(spans) |-> [time |-> spans[i], text |-> text]]

\* Small inputs in which every cue matches.
SmallInputs ==
    UNION {TwoFiles(Spoken(spans, <<"hello", "world">>)) : spans \in SeqsUpTo(SmallSpans, MaxCues)}

\* Inputs whose cues, subtitle files and video files may be missing.
PatchyInputs ==
    LET files == {[srt |-> s, video |-> v, blocks |-> b] :
                     s \in BOOLEAN, v \in BOOLEAN,
                     b \in SeqsUpTo([time : {<<Stamp(0), Stamp(2)>>, <<Stamp(1), Stamp(3)>>},
                                     text : {<<"hello", "there">>, <<"good", "bye">>}], 2)}
    IN  {<<f>> : f \in files} \cup {<<f, g>> : f \in files, g \in files}

\* A subtitle file of n cues, one every three ticks, each dur ticks long.
LargeFile(n, from, dur) ==
    Input([i \in 1..n |->
              [time |-> <<Stamp(3 * (from + i)), Stamp(3 * (from + i) + dur)>>,
               text |-> <<"hello", "world">>]])

LargeSizes == {BATCH_SIZE * b + x : b \in 1..MaxBatches, x \in {0, 1, 5}}

\* Large inputs: one file, or two files that meet at or just before the end
\* of the first batch.
LargeInputs ==
    {<<LargeFile(n, 0, dur)>> : n \in LargeSizes, dur \in {2, 4}}
        \cup {<<LargeFile(k, 0, dur), LargeFile(n - k, k, dur)>> :
                 n \in LargeSizes \ {BATCH_SIZE}, k \in {BATCH_SIZE - 1, BATCH_SIZE},
                 dur \in {2, 4}}

Paddings == {Tick(t) : t \in 0..MaxPadding}

TypeOK ==
    /\ pc \in {"start", "error", "composed", "exit", "truncate", "shuffle", "output",
               "output2", "batch", "remove", "done"}
    /\ status \in {0, 1}
    /\ args.padding \in Paddings

Init ==
    /\ \/ /\ inputfile \in SmallInputs
          /\ args \in Arguments(Paddings, {0 - Tick(1), Tick(3)}, {0}, {FALSE},
                                {FALSE}, {".edl", ".mp4"}, {FALSE})
       \/ /\ inputfile \in SmallInputs
          /\ args \in Arguments({Tick(1)}, {0, 0 - Tick(1)}, 0..MaxShuffle, BOOLEAN,
                                {FALSE}, {".mp4"}, {FALSE})
       \/ /\ inputfile \in PatchyInputs
          /\ args \in Arguments({Tick(1)}, {0}, {0}, {FALSE}, {FALSE}, {".mp4"}, {FALSE})
       \/ /\ inputfile \in LargeInputs
          /\ args \in Arguments(Paddings, {0}, {0, BATCH_SIZE + 1}, {FALSE},
                                BOOLEAN, Exts, BOOLEAN)
       \/ /\ inputfile \in LargeInputs
          /\ args \in Arguments({Tick(1)}, {Tick(1)}, {MaxShuffle}, BOOLEAN,
                                BOOLEAN, Exts, BOOLEAN)
    /\ pc = "start"
    /\ composition = <<>>
    /\ status = 0
    /\ ran = {}
    /\ outfile = NoFile
    /\ clipfiles = <<>>
    /\ tmpfiles = <<>>
    /\ start_index = 0
    /\ end_index = 0
    /\ batch_comp = <<>>
    /\ attempts = <<>>

Spec == Init /\ [][Next]_vars

(***************************************************************************)
(* What the claims speak of.                                               *)
(***************************************************************************)
\* The segments the search finds in the inputs, as compose_from_srts returns them.
Matched ==
    IF get_subtitle_files = <<>> THEN <<>> ELSE compose_from_srts(get_subtitle_files)

\* A segment is known by its video file and the timespan line of its cue.
Id(c) == <<c.file, c.time>>
Ids(comp) == [i \in 1..Len(comp) |-> Id(comp[i])]

\* The start and end of a segment after padding and sync, before any correction.
PaddedStart(c) == convert_timespan(c.time)[1] + args.sync - args.padding
PaddedEnd(c) == convert_timespan(c.time)[2] + args.sync + args.padding

\* Segment i follows a segment of the same file and starts before that one ends.
Overlaps(comp, i) ==
    /\ i > 1
    /\ comp[i].file = comp[i - 1].file
    /\ PaddedStart(comp[i]) < PaddedEnd(comp[i - 1])

BatchCount(n) == (n + BATCH_SIZE - 1) \div BATCH_SIZE

\* C1: when create_supercut has run its correction over the composition, every
\* segment that overlapped its same-file predecessor starts no earlier than
\* that predecessor ends.
C1_OverlapRemoved ==
    (pc = "done" /\ "create_supercut" \in ran) =>
        \A i \in 1..Len(composition) :
            Overlaps(composition, i) => composition[i].start >= composition[i - 1].end

\* The clip cut for segment i of the composition, wherever it was rendered.
CutIsAdvanced(clip, i) ==
    Overlaps(composition, i) => clip.start = PaddedStart(composition[i]) + args.padding

\* C2: every clip cut for a rendered video, in a single create_supercut call or
\* in a batch, whose segment overlaps its same-file predecessor in the whole
\* composition has a start advanced by the padding.
C2_EveryOverlapAdvanced ==
    /\ (pc = "done" /\ "create_supercut" \in ran) =>
          \A i \in 1..Len(outfile.body) : CutIsAdvanced(outfile.body[i], i)
    /\ \A b \in DOMAIN tmpfiles :
          \A k \in 1..Len(tmpfiles[b].clips) : CutIsAdvanced(tmpfiles[b].clips[k], b + k)

\* The same, for the pairs that lie within one batch only.
OverlapAdvancedWithinBatch ==
    \A b \in DOMAIN tmpfiles :
        \A k \in 2..Len(tmpfiles[b].clips) : CutIsAdvanced(tmpfiles[b].clips[k], b + k)

\* The batch job has started.
InBatches == "create_supercut_in_batches" \in ran

\* Every create_supercut call of the batch job so far has returned.
AllRendered == Len(batch_comp) = Len(attempts)

\* Batch j of the composition: the segments [20(j-1), min(20j, n)).
BatchOf(comp, j) ==
    [k \in 1..(Min(BATCH_SIZE * j, Len(comp)) - BATCH_SIZE * (j - 1)) |->
        comp[BATCH_SIZE * (j - 1) + k]]

\* C3: when every batch of a composition of n > 20 segments has rendered, the
\* batches were ceil(n/20), batch j was rendered j-th and holds the clips of
\* segments [20(j-1), min(20j, n)), and the final output holds the clips of all
\* n segments in the order of the composition.
C3_BatchesInOrder ==
    /\ InBatches =>
          \A j \in 1..Len(attempts) : attempts[j] = BATCH_SIZE * (j - 1)
    /\ (InBatches /\ AllRendered) =>
          \A j \in 1..Len(attempts) :
              /\ batch_comp[j] = attempts[j]
              /\ pc # "done" =>
                    /\ attempts[j] \in DOMAIN tmpfiles
                    /\ tmpfiles[attempts[j]].clips = cut_clips(BatchOf(composition, j))
    /\ (InBatches /\ AllRendered /\ pc \in {"remove", "done"}) =>
          /\ Len(composition) > BATCH_SIZE
          /\ Len(attempts) = BatchCount(Len(composition))
          /\ outfile.kind = "video"
          /\ Len(outfile.body) = Len(composition)
          /\ \A i \in 1..Len(composition) : outfile.body[i] = subclip(composition[i])

\* C3 happens: three batches (20 + 20 + 1 segments) have rendered and are concatenated.
C3_Witness ==
    /\ InBatches
    /\ AllRendered
    /\ pc = "remove"
    /\ Len(attempts) = 3
    /\ Len(composition) = 2 * BATCH_SIZE + 1

\* The temporaries of the batches that rendered, in the order of the batches.
Survivors == SelectSeq(attempts, LAMBDA a : a \in DOMAIN tmpfiles /\ tmpfiles[a].complete)

RECURSIVE ClipsOfBatches(_, _)
ClipsOfBatches(comp, starts) ==
    IF starts = <<>> THEN <<>>
    ELSE cut_clips(BatchOf(comp, (Head(starts) \div BATCH_SIZE) + 1))
             \o ClipsOfBatches(comp, Tail(starts))

\* What C4 says of every state of the batch job.
C4_Skipped ==
    InBatches =>
        /\ \A j \in 1..Len(attempts) : attempts[j] = BATCH_SIZE * (j - 1)
        /\ start_index = BATCH_SIZE * Len(attempts)
        /\ end_index = start_index + BATCH_SIZE
        /\ Len(attempts) <= BatchCount(Len(composition))
        /\ pc \in {"batch", "remove", "done"}
        /\ pc = "batch" => batch_comp = Survivors
        /\ pc \in {"remove", "done"} =>
              /\ Len(attempts) = BatchCount(Len(composition))
              /\ outfile = [kind |-> "video",
                            body |-> ClipsOfBatches(composition, batch_comp)]
        /\ pc = "remove" => batch_comp = Survivors
        /\ status = 0

\* C4: whatever batches fail, the batches are tried once each in increasing
\* order, a failed batch is passed over and the next one tried, the loop ends
\* (every turn moves start_index up by 20 towards the length of the
\* composition), the run goes on to the concatenation without failing, and
\* the final concatenation is made of the temporaries of the batches that
\* rendered, in batch order.
\* A step of the batch loop tries the next batch and stays in the loop, or
\* leaves the loop for the concatenation once every batch has been tried.
C4_LoopStep ==
    pc = "batch" =>
        \/ /\ pc' = "batch"
           /\ start_index < Len(composition)
           /\ attempts' = Append(attempts, start_index)
           /\ start_index' = start_index + BATCH_SIZE
        \/ /\ pc' = "remove"
           /\ start_index >= Len(composition)
           /\ attempts' = attempts

C4_FailedBatchesSkipped == []C4_Skipped /\ [][C4_LoopStep]_vars

\* C4 happens: the first batch failed, a later one rendered, and the
\* concatenation has been made.
C4_Witness ==
    /\ InBatches
    /\ pc = "remove"
    /\ batch_comp # <<>>
    /\ batch_comp[1] # 0
    /\ Len(attempts) = BatchCount(Len(composition))

\* C5: when the batch job is over, no temporary batch file is left on disk.
C5_NoTemporaryLeft == (InBatches /\ pc = "done") => DOMAIN tmpfiles = {}

\* The same, for the runs in which no batch failed.
NoTemporaryLeftWhenAllRendered ==
    (InBatches /\ pc = "done" /\ AllRendered) => DOMAIN tmpfiles = {}

\* C6: a run that is not a demo takes one output path, chosen by the extension
\* of the output file: .edl the EDL exporter alone, .otio the timeline exporter
\* alone, and the video and clip paths only for any other extension.
C6_OneOutputPath ==
    (pc = "done" /\ ~args.test) =>
        /\ args.ext = ".edl" => ran = {"make_edl"}
        /\ args.ext = ".otio" => ran = {"make_otio"}
        /\ args.ext \notin {".edl", ".otio"} =>
              \/ ran = {"split_clips"}
              \/ ran = {"create_supercut"}
              \/ ran = {"create_supercut_in_batches"}

\* The same, for every extension but .edl.
OneOutputPathUnlessEdl == args.ext # ".edl" => C6_OneOutputPath

\* Nothing has been written and no output function has been called.
NoOutput ==
    /\ ran = {}
    /\ outfile = NoFile
    /\ clipfiles = <<>>
    /\ DOMAIN tmpfiles = {}

\* No cue of any subtitle file that has a video matches the search term (a
\* timespan that comes twice in a file counts with its last text).
NothingMatches ==
    \A f \in 1..Len(inputfile) :
        (inputfile[f].srt /\ inputfile[f].video) =>
            \A k \in 1..Len(inputfile[f].blocks) :
                LET blocks == inputfile[f].blocks
                IN  (\A l \in (k + 1)..Len(blocks) : blocks[l].time # blocks[k].time)
                        => ~search_line(blocks[k].text)

\* What C7 says of every state of a run whose search matches nothing.
C7_Stopped ==
    NothingMatches =>
        /\ pc \in {"start", "composed", "exit", "error"}
        /\ composition = <<>>
        /\ NoOutput
        /\ pc \in {"exit", "error"} <=> status = 1

\* The one step a run takes once its search has matched nothing.
C7_Exits == (pc = "composed" /\ composition = <<>>) => (pc' = "exit" /\ status' = 1)

\* C7: when the search term matches nothing in any subtitle file of any input,
\* the run ends with a non-zero status and reaches no output step: nothing is
\* written and no adjustment is applied.
C7_NoMatchFails == []C7_Stopped /\ [][C7_Exits]_vars

\* C7 happens: a subtitle file with a video and with cues, none of which
\* matches, and the run has ended with status 1.
C7_Witness ==
    /\ pc = "exit"
    /\ status = 1
    /\ \E i \in 1..Len(inputfile) :
          inputfile[i].srt /\ inputfile[i].video /\ inputfile[i].blocks # <<>>

RECURSIVE SumOfDurations(_, _)
SumOfDurations(edl, i) ==
    IF i = 0 THEN 0
    ELSE SumOfDurations(edl, i - 1) + (edl[i].time_out - edl[i].time_in)

\* C8: in the EDL, the record-in of the first segment is 0, the record-in of
\* every later segment is the record-out of the segment before it, and every
\* record-out is the record-in plus (end - start) of its segment, which is the
\* sum of the durations of the segments up to it.
C8_EdlContiguous ==
    outfile.kind = "edl" =>
        /\ Len(outfile.body) = Len(composition)
        /\ \A i \in 1..Len(outfile.body) :
              LET e == outfile.body[i]
              IN  /\ e.rec_in = (IF i = 1 THEN 0 ELSE outfile.body[i - 1].rec_out)
                  /\ e.rec_out = e.rec_in + (e.time_out - e.time_in)
                  /\ e.rec_out = SumOfDurations(outfile.body, i)
                  /\ pc = "output2" =>
                        /\ e.time_in = composition[i].start
                        /\ e.time_out = composition[i].end

\* C8 happens: an EDL of segments that lie out of order and apart in the source.
C8_Witness ==
    /\ outfile.kind = "edl"
    /\ pc = "output2"
    /\ Len(outfile.body) >= 2
    /\ composition[1].file = composition[2].file
    /\ composition[2].end < composition[1].start
    /\ outfile.body[2].rec_in > 0

\* The steps between the adjustment and the first correction of a start.
Adjusted ==
    \/ pc \in {"truncate", "shuffle", "output", "output2"}
    \/ pc = "done" /\ ran \subseteq {"demo_supercut", "make_edl", "make_otio", "split_clips"}

\* C9: after the adjustment every segment starts at its matched start + sync -
\* padding and ends at its matched end + sync + padding, so that it lasts its
\* matched duration + 2 * padding; the end stays so to the end of the run.
C9_PaddedBothSides ==
    /\ Adjusted =>
          \A i \in 1..Len(composition) :
              LET c == composition[i]
                  matched == convert_timespan(c.time)
              IN  /\ c.start = matched[1] + args.sync - args.padding
                  /\ c.end - c.start = (matched[2] - matched[1]) + 2 * args.padding
    /\ pc \notin {"start", "composed", "exit", "error"} =>
          \A i \in 1..Len(composition) :
              composition[i].end =
                  convert_timespan(composition[i].time)[2] + args.sync + args.padding

\* C9 happens: padding and sync are both set, and the composition was
\* truncated and shuffled after the adjustment.
C9_Witness ==
    /\ pc = "output"
    /\ args.padding > 0
    /\ args.sync # 0
    /\ args.randomize
    /\ args.maxclips > 0
    /\ Len(composition) < Len(Matched)
    /\ Len(composition) >= 2
    /\ Ids(composition) # SubSeq(Ids(Matched), 1, Len(composition))

\* The number of segments maxclips leaves of n.
Kept(n) == IF args.maxclips > 0 THEN Min(args.maxclips, n) ELSE n

\* C10: after the truncation the composition is the first min(maxclips, n) of
\* the n matched segments in their order, or all of them when maxclips is 0;
\* the shuffle comes after it, so what is handed to the output step is those
\* segments in some order, and in their own order when randomize is not set.
C10_TruncatedThenShuffled ==
    LET first == SubSeq(Ids(Matched), 1, Kept(Len(Matched)))
    IN  /\ pc = "shuffle" => Ids(composition) = first
        /\ pc \in {"output", "output2"} =>
              /\ Len(composition) = Len(first)
              /\ {Id(composition[i]) : i \in 1..Len(composition)}
                     = {first[i] : i \in 1..Len(first)}
              /\ ~args.randomize => Ids(composition) = first

\* C10 happens: maxclips cut the composition short and the shuffle reordered it.
C10_Witness ==
    /\ pc = "output"
    /\ args.randomize
    /\ args.maxclips > 1
    /\ args.maxclips < Len(Matched)
    /\ Ids(composition) # SubSeq(Ids(Matched), 1, args.maxclips)

\* A subtitle file that compose_from_srts searches: it has a video file.
Searched(f) == inputfile[f].srt /\ inputfile[f].video

\* The segment of cue block k of subtitle file f.
SegmentOf(f, k) ==
    LET b == inputfile[f].blocks[k]
    IN  [file |-> f, time |-> b.time, start |-> convert_timespan(b.time)[1],
         end |-> convert_timespan(b.time)[2], line |-> b.text]

\* One segment for every matching cue block of file f, in the order of the blocks.
MatchingCues(f) ==
    LET hits == SelectSeq([k \in 1..Len(inputfile[f].blocks) |-> k],
                          LAMBDA k : search_line(inputfile[f].blocks[k].text))
    IN  [n \in 1..Len(hits) |-> SegmentOf(f, hits[n])]

\* The same for the files from f on, file after file; a file without a video
\* gives nothing.
RECURSIVE MatchingCuesFrom(_)
MatchingCuesFrom(f) ==
    IF f > Len(inputfile) THEN <<>>
    ELSE (IF Searched(f) THEN MatchingCues(f) ELSE <<>>) \o MatchingCuesFrom(f + 1)

\* C11: compose_from_srts returns one segment for every matching cue, file
\* after file in the order of the inputs and cue after cue within a file; a
\* subtitle file without a video file or without cues adds nothing, does not
\* end the run and leaves the segments of the other files as they are.
C11_OneSegmentPerMatchingCue ==
    pc = "composed" => composition = MatchingCuesFrom(1)

\* No timespan line comes twice in one subtitle file.
DistinctTimespans ==
    \A f \in 1..Len(inputfile) :
        \A k, l \in 1..Len(inputfile[f].blocks) :
            inputfile[f].blocks[k].time = inputfile[f].blocks[l].time => k = l

\* The same as C11, for subtitle files in which no timespan line comes twice.
OneSegmentPerCueOfDistinctTimespans == DistinctTimespans => C11_OneSegmentPerMatchingCue

\* The run is past the adjustment, the truncation and the shuffle.
AtOutput == pc \in {"output", "output2", "batch", "remove"}

\* Segment i of comp may be corrected: it follows a segment of the same file
\* and starts before that one ends.
StartsBeforePredecessorEnds(comp, i) ==
    /\ i > 1
    /\ comp[i].file = comp[i - 1].file
    /\ comp[i].start < comp[i - 1].end

\* What one step of the output leaves of the composition.
C12_Step ==
    AtOutput =>
        /\ Len(composition') = Len(composition)
        /\ \A i \in 1..Len(composition) :
              /\ composition'[i].end = composition[i].end
              /\ composition'[i].file = composition[i].file
              /\ composition'[i].time = composition[i].time
              /\ composition'[i].line = composition[i].line
              /\ composition'[i].start # composition[i].start =>
                    /\ StartsBeforePredecessorEnds(composition, i)
                    /\ composition'[i].start = composition[i].start + args.padding
        /\ (ran' # ran /\ ran' \ ran \subseteq {"demo_supercut", "make_edl", "make_otio",
                                                "split_clips"})
              => composition' = composition

\* No start is advanced twice in a run.
C12_AdvancedOnce ==
    pc \in {"output", "output2", "batch", "remove", "done"} =>
        \A i \in 1..Len(composition) :
            \/ composition[i].start = PaddedStart(composition[i])
            \/ /\ composition[i].start = PaddedStart(composition[i]) + args.padding
               /\ Overlaps(composition, i)

\* C12: a create_supercut call changes nothing of the composition but the
\* start of a segment that follows a segment of the same file and starts
\* before that one ends, and it advances such a start by exactly padding, once;
\* no end is changed, and demo_supercut, make_edl, make_otio and split_clips
\* leave the composition as it is.
C12_OnlyOverlappingStartsMove == []C12_AdvancedOnce /\ [][C12_Step]_vars

\* C12 happens: create_supercut has advanced a start by a padding above 0, and
\* has kept the start of a segment that starts before the end of its
\* predecessor of another file.
C12_Witness ==
    /\ pc = "done"
    /\ "create_supercut" \in ran
    /\ args.padding > 0
    /\ \E i \in 2..Len(composition) :
          composition[i].start = PaddedStart(composition[i]) + args.padding
    /\ \E j \in 2..Len(composition) :
          /\ composition[j].file # composition[j - 1].file
          /\ composition[j].start < composition[j - 1].end
          /\ composition[j].start = PaddedStart(composition[j])

====
